---- MODULE Spec2Model ----
(***************************************************************************)
(* NocoDB MCP server (src/nocodb_mcp_server.py): the table-name resolver,  *)
(* the filter-expression builder and the nine tool handlers.               *)
(*                                                                         *)
(* Python strings are sequences of one-character strings, so that strip,   *)
(* lower, replace, split and join are computed character by character.     *)
(* Python values are records of one shape (tag t, and the payload fields). *)
(***************************************************************************)
EXTENDS Integers, Sequences, FiniteSets, TLC

VARIABLES
    pc,            \* position of the running handler
    tool,          \* name of the handler (or pure function) being run
    args,          \* its arguments
    client,        \* the invocation's httpx client: "none", "open", "closed"
    calls,         \* remote calls this invocation issued, with their outcome
    table_id,      \* table id get_table_id resolved (<<>> before that)
    failure,       \* the failure met by this invocation ("none" if none)
    result,        \* what the invocation gave back to its caller
    where,         \* the filter expression sent with the record query
    open_clients,  \* clients created and not closed, over all invocations
    remote_log,    \* remote calls issued, over all invocations
    invocations    \* tool invocations started so far

vars == <<pc, tool, args, client, calls, table_id, failure, result, where,
          open_clients, remote_log, invocations>>

-----------------------------------------------------------------------------
(* Bounds of the model *)

MaxConds == 2
MaxTables == 2
MaxInvocations == 2

-----------------------------------------------------------------------------
(* Python str methods *)

UpperChars == <<"A","B","C","D","E","F","G","H","I","J","K","L","M",
                "N","O","P","Q","R","S","T","U","V","W","X","Y","Z">>
LowerChars == <<"a","b","c","d","e","f","g","h","i","j","k","l","m",
                "n","o","p","q","r","s","t","u","v","w","x","y","z">>
DigitChars == <<"0","1","2","3","4","5","6","7","8","9">>

LowerChar(c) ==
    IF \E i \in 1..Len(UpperChars) : UpperChars[i] = c
    THEN LowerChars[CHOOSE i \in 1..Len(UpperChars) : UpperChars[i] = c]
    ELSE c

RECURSIVE StrLower(_)
StrLower(s) ==
    IF s = <<>> THEN <<>> ELSE <<LowerChar(Head(s))>> \o StrLower(Tail(s))

\* s.replace(c, r) for a one-character c
RECURSIVE StrReplace(_, _, _)
StrReplace(s, c, r) ==
    IF s = <<>> THEN <<>>
    ELSE (IF Head(s) = c THEN r ELSE <<Head(s)>>) \o StrReplace(Tail(s), c, r)

IsSpace(c) == c = " "

RECURSIVE StrLStrip(_)
StrLStrip(s) ==
    IF s # <<>> /\ IsSpace(Head(s)) THEN StrLStrip(Tail(s)) ELSE s

\* s.rstrip(c)
RECURSIVE StrRStripChar(_, _)
StrRStripChar(s, c) ==
    IF s # <<>> /\ s[Len(s)] = c
    THEN StrRStripChar(SubSeq(s, 1, Len(s) - 1), c)
    ELSE s

StrStrip(s) == StrRStripChar(StrLStrip(s), " ")

\* sep.join(parts)
RECURSIVE StrJoin(_, _)
StrJoin(parts, sep) ==
    IF parts = <<>> THEN <<>>
    ELSE IF Len(parts) = 1 THEN parts[1]
    ELSE parts[1] \o sep \o StrJoin(Tail(parts), sep)

StartsWith(s, p) == Len(s) >= Len(p) /\ SubSeq(s, 1, Len(p)) = p

\* s.split(sep) for a non-empty sep: cut at each leftmost occurrence
RECURSIVE StrSplitFrom(_, _, _)
StrSplitFrom(s, sep, acc) ==
    IF s = <<>> THEN <<acc>>
    ELSE IF StartsWith(s, sep)
         THEN <<acc>> \o StrSplitFrom(SubSeq(s, Len(sep) + 1, Len(s)), sep, <<>>)
         ELSE StrSplitFrom(Tail(s), sep, Append(acc, Head(s)))

StrSplit(s, sep) == StrSplitFrom(s, sep, <<>>)

-----------------------------------------------------------------------------
(* Python values.  An int is m * 10^e (e > 0 only for the large values     *)
(* that need it), written in decimal by str().                             *)

PyNone == [t |-> "none", m |-> 0, e |-> 0, s |-> <<>>, items |-> <<>>]
PyAbsent == [t |-> "absent", m |-> 0, e |-> 0, s |-> <<>>, items |-> <<>>]
PyInt(m, e) == [t |-> "int", m |-> m, e |-> e, s |-> <<>>, items |-> <<>>]
PyStr(s) == [t |-> "str", m |-> 0, e |-> 0, s |-> s, items |-> <<>>]
PyList(items) == [t |-> "list", m |-> 0, e |-> 0, s |-> <<>>, items |-> items]

\* dict.get(key) and dict.get(key, default) on a key that may be absent
DictGet(v) == IF v.t = "absent" THEN PyNone ELSE v
DictGetDefault(v, d) == IF v.t = "absent" THEN d ELSE v

\* bool(v) for the values of the model
Truthy(v) ==
    CASE v.t = "none" -> FALSE
      [] v.t = "absent" -> FALSE
      [] v.t = "int" -> v.m # 0
      [] v.t = "str" -> v.s # <<>>
      [] v.t = "list" -> v.items # <<>>

RECURSIVE NatDigits(_)
NatDigits(n) ==
    IF n < 10 THEN <<DigitChars[n + 1]>>
    ELSE NatDigits(n \div 10) \o <<DigitChars[(n % 10) + 1]>>

RECURSIVE Zeros(_)
Zeros(k) == IF k = 0 THEN <<>> ELSE <<"0">> \o Zeros(k - 1)

\* str(v), also what an f-string puts for {v}; lists are never formatted
\* this way by the inputs of the model
PyStrOf(v) ==
    CASE v.t = "none" -> <<"N","o","n","e">>
      [] v.t = "int" -> NatDigits(v.m) \o (IF v.m = 0 THEN <<>> ELSE Zeros(v.e))
      [] v.t = "str" -> v.s

IsNumber(v) == v.t = "int"

-----------------------------------------------------------------------------
(* float(x) and repr(float), on unsigned decimal numerals: digits with an  *)
(* optional point and an optional exponent (e or E, optional sign,         *)
(* digits).  The value is sig * 10^exp with sig not ending in 0; every     *)
(* numeral of the model has at most 15 significant digits, so the double   *)
(* is exact.                                                               *)

IsDigit(c) == \E i \in 1..Len(DigitChars) : DigitChars[i] = c
DigitValue(c) == (CHOOSE i \in 1..Len(DigitChars) : DigitChars[i] = c) - 1
IsDigits(s) == s # <<>> /\ \A i \in 1..Len(s) : IsDigit(s[i])
AllDigits(s) == \A i \in 1..Len(s) : IsDigit(s[i])

RECURSIVE DigitsToNat(_)
DigitsToNat(s) ==
    IF s = <<>> THEN 0
    ELSE 10 * DigitsToNat(SubSeq(s, 1, Len(s) - 1)) + DigitValue(s[Len(s)])

\* index of the first character of s that is in S, 0 if none
FirstOf(s, S) ==
    LET at == {i \in 1..Len(s) : s[i] \in S}
    IN  IF at = {} THEN 0 ELSE CHOOSE i \in at : \A j \in at : i <= j

NoFloat == [ok |-> FALSE, sig |-> 0, exp |-> 0]

ParseFloat(x) ==
    LET s == StrStrip(x)
        at == FirstOf(s, {"e", "E"})
        mant == IF at = 0 THEN s ELSE SubSeq(s, 1, at - 1)
        tail == IF at = 0 THEN <<"0">> ELSE SubSeq(s, at + 1, Len(s))
        neg == tail # <<>> /\ Head(tail) = "-"
        expo == IF tail # <<>> /\ Head(tail) \in {"+", "-"} THEN Tail(tail) ELSE tail
        dot == FirstOf(mant, {"."})
        whole == IF dot = 0 THEN mant ELSE SubSeq(mant, 1, dot - 1)
        frac == IF dot = 0 THEN <<>> ELSE SubSeq(mant, dot + 1, Len(mant))
        digs == whole \o frac
    IN  IF ~(AllDigits(whole) /\ AllDigits(frac) /\ digs # <<>> /\ IsDigits(expo))
        THEN NoFloat
        ELSE LET sigd == StrRStripChar(digs, "0")
                 sig == DigitsToNat(sigd)
                 ex == IF neg THEN 0 - DigitsToNat(expo) ELSE DigitsToNat(expo)
             IN  [ok |-> TRUE, sig |-> sig,
                  exp |-> IF sig = 0 THEN 0
                          ELSE (Len(digs) - Len(sigd)) - Len(frac) + ex]

\* repr(float): positional while the decimal point sits in (-4, 16], else
\* d[.ddd]e+XX or e-XX with at least two exponent digits
FloatRepr(f) ==
    LET d == NatDigits(f.sig)
        decpt == Len(d) + f.exp
        x == decpt - 1
        ax == IF x < 0 THEN 0 - x ELSE x
    IN  IF f.sig = 0 THEN <<"0", ".", "0">>
        ELSE IF decpt > -4 /\ decpt <= 16 THEN
            IF decpt <= 0 THEN <<"0", ".">> \o Zeros(0 - decpt) \o d
            ELSE IF decpt >= Len(d) THEN d \o Zeros(decpt - Len(d)) \o <<".", "0">>
            ELSE SubSeq(d, 1, decpt) \o <<".">> \o SubSeq(d, decpt + 1, Len(d))
        ELSE <<Head(d)>>
             \o (IF Len(d) > 1 THEN <<".">> \o Tail(d) ELSE <<>>)
             \o <<"e", IF x < 0 THEN "-" ELSE "+">>
             \o (IF ax < 10 THEN <<"0">> ELSE <<>>) \o NatDigits(ax)

-----------------------------------------------------------------------------
(* String literals of the source *)

s_eq == <<"e","q">>
s_neq == <<"n","e","q">>
s_gt == <<"g","t">>
s_gte == <<"g","t","e">>
s_lt == <<"l","t">>
s_lte == <<"l","t","e">>
s_like == <<"l","i","k","e">>
s_in == <<"i","n">>
s_nin == <<"n","i","n">>
s_between == <<"b","e","t","w","e","e","n">>
s_and == <<"a","n","d">>
s_or == <<"o","r">>
s_null == <<"n","u","l","l">>
s_between_mark == <<"_","_","B","E","T","W","E","E","N","_","_">>
s_colons == <<":",":">>
s_Contact_Name == <<"C","o","n","t","a","c","t","_","N","a","m","e">>

\* _ALLOWED_OPS
AllowedOps ==
    {s_eq, s_neq, s_gt, s_gte, s_lt, s_lte, s_like, s_in, s_nin, s_between}

\* allowed_ops of find_by_field
FieldAllowedOps ==
    {s_eq, s_neq, s_gt, s_gte, s_lt, s_lte, s_like, s_in, s_nin}

-----------------------------------------------------------------------------
(* Outcome of a function that returns a string or raises *)

Ok(val) == [ok |-> TRUE, err |-> "", val |-> val]
Raise(err) == [ok |-> FALSE, err |-> err, val |-> <<>>]

\* "'" + str(v).replace("'", "''") + "'"
QuoteStr(v) == <<"'">> \o StrReplace(PyStrOf(v), "'", <<"'", "'">>) \o <<"'">>

\* one element of an in/nin list
FmtItem(v) == IF IsNumber(v) THEN PyStrOf(v) ELSE QuoteStr(v)

RECURSIVE FmtItems(_)
FmtItems(items) ==
    IF items = <<>> THEN <<>> ELSE <<FmtItem(Head(items))>> \o FmtItems(Tail(items))

\* _fmt_value_for_where(value, op)
FmtValueForWhere(value, op) ==
    IF value.t = "none" THEN Ok(s_null)
    ELSE IF op \in {s_in, s_nin} THEN
        LET items == IF value.t = "list" THEN value.items ELSE <<value>>
        IN  Ok(<<"(">> \o StrJoin(FmtItems(items), <<",">>) \o <<")">>)
    ELSE IF op = s_between THEN
        IF value.t # "list" \/ Len(value.items) # 2 THEN Raise("ValueError")
        ELSE Ok(s_between_mark \o s_colons \o PyStrOf(value.items[1])
                \o s_colons \o PyStrOf(value.items[2]))
    ELSE IF IsNumber(value) THEN Ok(PyStrOf(value))
    ELSE Ok(QuoteStr(value))

\* _num_or_str(x) of _make_condition
NumOrStr(x) ==
    LET f == ParseFloat(x)
    IN  IF f.ok THEN StrRStripChar(StrRStripChar(FloatRepr(f), "0"), ".")
        ELSE <<"'">> \o StrReplace(x, "'", <<"'", "'">>) \o <<"'">>

\* _make_condition with the operator check dropped: an unknown operator is
\* passed through to the expression
MakeCondition_PassThrough(field, op, value) ==
    IF op.t # "str" THEN Raise("AttributeError")
    ELSE LET lop == StrLower(op.s)
             v == FmtValueForWhere(value, lop)
         IN  IF ~v.ok THEN v
             ELSE Ok(<<"(">> \o field \o <<",">> \o lop \o <<",">> \o v.val \o <<")">>)

\* _make_condition(field, op, value): field a str, op any value
MakeCondition(field, op, value) ==
    IF op.t # "str" THEN Raise("AttributeError")
    ELSE LET lop == StrLower(op.s) IN
    IF lop \notin AllowedOps THEN Raise("ValueError")
    ELSE LET v == FmtValueForWhere(value, lop) IN
    IF ~v.ok THEN v
    ELSE IF lop = s_between THEN
        LET parts == StrSplit(v.val, s_colons) IN
        IF Len(parts) # 3 THEN Raise("ValueError")
        ELSE Ok(s_and \o <<"(", "(">> \o field \o <<",">> \o s_gte \o <<",">>
                \o NumOrStr(parts[2]) \o <<")", ",", "(">> \o field \o <<",">>
                \o s_lte \o <<",">> \o NumOrStr(parts[3]) \o <<")", ")">>)
    ELSE Ok(<<"(">> \o field \o <<",">> \o lop \o <<",">> \o v.val \o <<")">>)

\* one turn of the loop of _build_where: c.get(...), the field check and
\* _make_condition
LoopBody(c) ==
    IF ~Truthy(DictGet(c.field)) THEN Raise("ValueError")
    ELSE MakeCondition(PyStrOf(DictGet(c.field)),
                       DictGetDefault(c.op, PyStr(s_eq)), DictGet(c.value))

\* parts.append(p) ahead of the later parts, unless an error was raised
AppendPart(p, rest) ==
    IF ~p.ok THEN [ok |-> FALSE, err |-> p.err, val |-> <<>>]
    ELSE IF ~rest.ok THEN rest
    ELSE [ok |-> TRUE, err |-> "", val |-> <<p.val>> \o rest.val]

\* the loop of _build_where: the parts, or the first error raised
RECURSIVE BuildParts(_)
BuildParts(conditions) ==
    IF conditions = <<>> THEN [ok |-> TRUE, err |-> "", val |-> <<>>]
    ELSE AppendPart(LoopBody(Head(conditions)), BuildParts(Tail(conditions)))

\* return parts[0] if len(parts) == 1 else f"{logic}({','.join(parts)})"
Combine(parts, lg) ==
    IF ~parts.ok THEN parts
    ELSE IF Len(parts.val) = 1 THEN Ok(parts.val[1])
    ELSE Ok(lg \o <<"(">> \o StrJoin(parts.val, <<",">>) \o <<")">>)

\* _build_where without the len(parts) == 1 case: one condition is wrapped too
BuildWhere_AlwaysWrap(conditions, logic) ==
    IF conditions = <<>> THEN Raise("ValueError")
    ELSE IF StrLower(logic) \notin {s_and, s_or} THEN Raise("ValueError")
    ELSE LET parts == BuildParts(conditions) IN
    IF ~parts.ok THEN parts
    ELSE Ok(StrLower(logic) \o <<"(">> \o StrJoin(parts.val, <<",">>) \o <<")">>)

\* _build_where(conditions, logic)
BuildWhere(conditions, logic) ==
    IF conditions = <<>> THEN Raise("ValueError")
    ELSE IF StrLower(logic) \notin {s_and, s_or} THEN Raise("ValueError")
    ELSE Combine(BuildParts(conditions), StrLower(logic))

\* _fmt(v) of find_by_field, op as the caller gave it
FieldFmt(v, op) ==
    IF v.t = "none" THEN s_null
    ELSE IF IsNumber(v) THEN PyStrOf(v)
    ELSE IF v.t = "list" /\ op \in {s_in, s_nin}
         THEN <<"(">> \o StrJoin(FmtItems(v.items), <<",">>) \o <<")">>
    ELSE QuoteStr(v)

-----------------------------------------------------------------------------
(* get_table_id: the match over the fetched tables (lines 67-90).  A table *)
(* is [id, title, table_name, name]; <<>> stands for a missing, null or    *)
(* empty name.                                                             *)

\* x.lower().replace("_", "").replace(" ", "")
Normalize(x) == StrReplace(StrReplace(StrLower(x), "_", <<>>), " ", <<>>)

\* candidates = [title or "", table_name or name or ""]
Candidates(t) == <<t.title, IF t.table_name # <<>> THEN t.table_name ELSE t.name>>

\* the body of the inner loop: the candidate returns t["id"]
CandidateMatches(cand, needle_raw) ==
    LET cand_raw == StrStrip(cand)
    IN  \/ cand_raw = needle_raw
        \/ Normalize(cand_raw) = Normalize(needle_raw)

TableMatches(t, needle_raw) ==
    \E k \in 1..2 : CandidateMatches(Candidates(t)[k], needle_raw)

\* the listing with the untitled tables left out
Available_TitledOnly(tables) ==
    LET titled == SelectSeq(tables, LAMBDA t : t.title # <<>>)
    IN  [i \in 1..Len(titled) |->
            [id |-> titled[i].id, title |-> titled[i].title,
             name |-> Candidates(titled[i])[2]]]

\* the Available list of the ValueError message: one entry for each table
Available(tables) ==
    [i \in 1..Len(tables) |->
        [id |-> tables[i].id, title |-> tables[i].title,
         name |-> Candidates(tables[i])[2]]]

Resolved(id) == [ok |-> TRUE, id |-> id, available |-> <<>>]

GetTableId(tables, table_name) ==
    LET byId == {i \in 1..Len(tables) : tables[i].id = table_name}
        needle_raw == StrStrip(table_name)
        byName == {i \in 1..Len(tables) : TableMatches(tables[i], needle_raw)}
        first(S) == CHOOSE i \in S : \A j \in S : i <= j
    IN  IF byId # {} THEN Resolved(tables[first(byId)].id)
        ELSE IF byName # {} THEN Resolved(tables[first(byName)].id)
        ELSE [ok |-> FALSE, id |-> <<>>, available |-> Available(tables)]

-----------------------------------------------------------------------------
(* Inputs of the model *)

\* sequences over S of length 0..n
RECURSIVE SeqsUpTo(_, _)
SeqsUpTo(S, n) ==
    IF n = 0 THEN {<<>>}
    ELSE LET shorter == SeqsUpTo(S, n - 1)
         IN  shorter \cup {Append(q, x) : q \in shorter, x \in S}

Table(id, title, table_name, name) ==
    [id |-> id, title |-> title, table_name |-> table_name, name |-> name]

TablePool ==
    { Table(<<"t","1">>, <<"a","b">>, <<>>, <<>>),
      Table(<<"t","2">>, <<"A","b">>, <<"a","_","b">>, <<>>),
      Table(<<"A","b">>, <<"x">>, <<>>, <<>>),
      Table(<<"t","4">>, <<>>, <<>>, <<" ","A"," ","B">>) }

TableLists == SeqsUpTo(TablePool, MaxTables)

\* table names a caller gives: empty, exact, spaced, other case, unknown
TableNames == { <<>>, <<"A","b">>, <<"z","z">> }
Queries == (TableNames \ {<<>>}) \cup { <<"A","B">>, <<" ","a","b"," ">>, <<"t","2">> }

Cond(field, op, value) == [field |-> field, op |-> op, value |-> value]

f_F == PyStr(<<"F">>)
v_A == PyStr(<<"A">>)
v_OB == PyStr(<<"O","'","B">>)
v_5 == PyInt(5, 0)
v_1e20 == PyInt(1, 20)

ValidConds ==
    { Cond(f_F, PyStr(s_eq), v_A),
      Cond(f_F, PyAbsent, v_OB),
      Cond(PyStr(<<"G">>), PyStr(<<"G","T">>), v_5),
      Cond(f_F, PyStr(<<"L","i","k","e">>), PyAbsent),
      Cond(f_F, PyStr(s_in), v_A),
      Cond(f_F, PyStr(s_nin), v_5),
      Cond(f_F, PyStr(<<"I","N">>), PyList(<<v_OB, v_5>>)),
      Cond(f_F, PyStr(s_between), PyList(<<PyInt(10, 0), PyInt(20, 0)>>)),
      Cond(f_F, PyStr(s_between), PyList(<<v_1e20, v_OB>>)),
      Cond(f_F, PyStr(s_between), PyList(<<PyStr(<<"1","e","2","0">>), PyNone>>)) }

InvalidConds ==
    { Cond(PyAbsent, PyStr(s_eq), v_5),
      Cond(PyStr(<<>>), PyStr(s_eq), v_5),
      Cond(f_F, PyStr(<<"f","o","o">>), v_A),
      Cond(f_F, PyStr(s_between), PyAbsent),
      Cond(f_F, PyStr(s_between), PyList(<<v_5>>)),
      Cond(f_F, PyStr(<<"B","E","T","W","E","E","N">>), v_A) }

\* a two-element between whose bound holds the separator of the marker
OddConds ==
    { Cond(f_F, PyStr(s_between), PyList(<<PyStr(<<"x",":",":","y">>), v_5>>)) }

WhereConds == ValidConds \cup InvalidConds \cup OddConds

Logics == { s_and, s_or, <<"O","R">>, <<"A","n","d">>, <<"x","o","r">> }

Cfg(url, token, base) == [url |-> url, token |-> token, base |-> base]

NoArgs ==
    [ table_name |-> <<>>, cfg |-> Cfg(TRUE, TRUE, TRUE), row_id |-> <<>>,
      data |-> "none", bulk |-> FALSE, bulk_ids |-> <<>>, name |-> <<>>,
      field |-> <<>>, op |-> PyNone, value |-> PyNone,
      conditions |-> <<>>, conds_is_list |-> TRUE, logic |-> <<>>,
      tables |-> <<>> ]

NoResult == [kind |-> "none", status_code |-> 0, val |-> <<>>]

-----------------------------------------------------------------------------
(* The filter builder and the resolver, applied to drawn inputs *)

InitPure ==
    /\ pc = "input"
    /\ client = "none" /\ calls = <<>> /\ table_id = <<>> /\ failure = "none"
    /\ result = NoResult /\ where = <<>>
    /\ open_clients = 0 /\ remote_log = 0 /\ invocations = 0

InitWhere ==
    /\ InitPure
    /\ \/ /\ tool = "_build_where"
          /\ \E cs \in SeqsUpTo(WhereConds, MaxConds), lg \in Logics :
                args = [NoArgs EXCEPT !.conditions = cs, !.logic = lg]
       \/ /\ tool = "_make_condition"
          /\ \E c \in WhereConds :
                /\ c.field.t = "str"
                /\ args = [NoArgs EXCEPT !.field = c.field.s, !.op = c.op,
                                         !.value = DictGet(c.value)]

Applied(r) ==
    /\ pc = "input"
    /\ pc' = "applied"
    /\ result' = r
    /\ UNCHANGED <<tool, args, client, calls, table_id, failure, where,
                   open_clients, remote_log, invocations>>

ApplyBuildWhere ==
    /\ tool = "_build_where"
    /\ Applied(BuildWhere(args.conditions, args.logic))

ApplyMakeCondition ==
    /\ tool = "_make_condition"
    /\ Applied(MakeCondition(args.field, args.op, args.value))

NextWhere == ApplyBuildWhere \/ ApplyMakeCondition

SpecWhere == InitWhere /\ [][NextWhere]_vars

InitResolve ==
    /\ InitPure
    /\ tool = "get_table_id"
    /\ \E ts \in TableLists, q \in Queries :
          args = [NoArgs EXCEPT !.tables = ts, !.table_name = q]

ApplyGetTableId ==
    /\ tool = "get_table_id"
    /\ Applied(GetTableId(args.tables, args.table_name))

NextResolve == ApplyGetTableId

SpecResolve == InitResolve /\ [][NextResolve]_vars

-----------------------------------------------------------------------------
(* The tool handlers.  A handler runs from its call to its first remote    *)
(* request in one step, and from each response to the next request or to   *)
(* its return in one step.                                                 *)

Cfgs ==
    { Cfg(TRUE, TRUE, TRUE), Cfg(FALSE, TRUE, TRUE),
      Cfg(TRUE, FALSE, TRUE), Cfg(TRUE, TRUE, FALSE) }
RowIds == { <<>>, <<"r">> }
BulkIds == { <<>>, <<<<"r">>>> }
ContactNames == { <<>>, <<"A","l">>, <<"O","'","B">> }
FieldNames == { <<>>, <<"F">> }

\* (op, value) pairs given to find_by_field
FieldQueries ==
    { <<s_eq, v_A>>, <<s_eq, v_OB>>, <<s_eq, PyNone>>, <<s_gt, v_5>>,
      <<<<"E","Q">>, v_A>>, <<<<"L","i","k","e">>, v_OB>>,
      <<s_in, v_A>>, <<s_nin, v_5>>, <<s_in, PyList(<<v_OB, v_5>>)>>,
      <<<<"f","o","o">>, v_A>>,
      <<s_between, PyList(<<PyInt(10, 0), PyInt(20, 0)>>)>> }

\* conditions given to find_by_fields
ToolConds ==
    { Cond(f_F, PyStr(<<"E","Q">>), v_OB),
      Cond(f_F, PyStr(s_in), v_A),
      Cond(f_F, PyStr(<<"f","o","o">>), v_A) }
ToolLogics == { s_and, <<"O","R">>, <<"x","o","r">> }

Envelope(code) == [kind |-> "envelope", status_code |-> code, val |-> <<>>]
Uncaught == [kind |-> "exception", status_code |-> 0, val |-> <<>>]
Success == [kind |-> "success", status_code |-> 0, val |-> <<>>]

Call(kind, payload) == [kind |-> kind, outcome |-> "pending", payload |-> payload]

\* responses of the remote API
Response(kind, code, tables, body) ==
    [kind |-> kind, code |-> code, tables |-> tables, body |-> body]
FailedResponses ==
    { Response("network", 0, <<>>, "none"), Response("timeout", 0, <<>>, "none"),
      Response("status", 404, <<>>, "text"), Response("status", 500, <<>>, "text") }
TableResponses ==
    FailedResponses \cup { Response("ok", 200, <<>>, "invalid") }
    \cup { Response("ok", 200, ts, "dict") : ts \in TableLists }
RecordResponses ==
    FailedResponses
    \cup { Response("ok", 200, <<>>, b) : b \in {"dict", "number", "list", "invalid"} }
    \cup { Response("ok", 204, <<>>, "invalid") }

Init ==
    /\ pc = "idle" /\ tool = "none" /\ args = NoArgs
    /\ client = "none" /\ calls = <<>> /\ table_id = <<>> /\ failure = "none"
    /\ result = NoResult /\ where = <<>>
    /\ open_clients = 0 /\ remote_log = 0 /\ invocations = 0

\* the host calls tool t with arguments a
Start(t, a) ==
    /\ pc = "idle"
    /\ invocations < MaxInvocations
    /\ invocations' = invocations + 1
    /\ tool' = t
    /\ args' = a

Returns(res, fail) ==
    /\ pc' = "done"
    /\ result' = res
    /\ failure' = fail

\* argument checks placed after the creation of the client, outside the try
RejectArgs_ClientFirst ==
    /\ Returns(Envelope(0), "validation")
    /\ client' = "open"
    /\ open_clients' = open_clients + 1
    /\ UNCHANGED <<calls, table_id, where, remote_log>>

\* return {"error": True, "message": ...} of the argument checks
RejectArgs ==
    /\ Returns(Envelope(0), "validation")
    /\ UNCHANGED <<client, calls, table_id, where, open_clients, remote_log>>

\* get_nocodb_client raises ValueError
ClientError(cfg) == ~cfg.url \/ ~cfg.token

\* client = await get_nocodb_client(...) and table_id = await
\* get_table_id(...) up to its client.get.  inTry: whether the handler
\* creates the client inside its try block.
BeginResolve(a, inTry) ==
    IF ClientError(a.cfg) THEN
        /\ Returns(IF inTry THEN Envelope(0) ELSE Uncaught, "config")
        /\ UNCHANGED <<client, calls, table_id, where, open_clients, remote_log>>
    ELSE IF ~a.cfg.base THEN
        \* _resolve_base_id raises inside the try; finally closes the client
        /\ Returns(Envelope(0), "config")
        /\ client' = "closed"
        /\ UNCHANGED <<calls, table_id, where, open_clients, remote_log>>
    ELSE
        /\ pc' = "get_table_id"
        /\ client' = "open"
        /\ open_clients' = open_clients + 1
        /\ calls' = <<Call("tables", "none")>>
        /\ remote_log' = remote_log + 1
        /\ UNCHANGED <<table_id, where, failure, result>>

list_tables ==
    \E cfg \in Cfgs :
      LET a == [NoArgs EXCEPT !.cfg = cfg] IN
      /\ Start("list_tables", a)
      /\ IF ClientError(cfg) THEN
            /\ Returns(Uncaught, "config")
            /\ UNCHANGED <<client, calls, table_id, where, open_clients, remote_log>>
         ELSE IF ~cfg.base THEN
            \* _resolve_base_id raises before the try: no finally runs
            /\ Returns(Uncaught, "config")
            /\ client' = "open"
            /\ open_clients' = open_clients + 1
            /\ UNCHANGED <<calls, table_id, where, remote_log>>
         ELSE
            /\ pc' = "list_tables"
            /\ client' = "open"
            /\ open_clients' = open_clients + 1
            /\ calls' = <<Call("tables", "none")>>
            /\ remote_log' = remote_log + 1
            /\ UNCHANGED <<table_id, where, failure, result>>

retrieve_records ==
    \E tn \in TableNames, cfg \in Cfgs, rid \in RowIds :
      LET a == [NoArgs EXCEPT !.table_name = tn, !.cfg = cfg, !.row_id = rid] IN
      /\ Start("retrieve_records", a)
      /\ IF tn = <<>> THEN RejectArgs ELSE BeginResolve(a, FALSE)

create_records ==
    \E tn \in TableNames, cfg \in Cfgs, d \in {"none", "object", "list"},
       bulk \in BOOLEAN :
      LET a == [NoArgs EXCEPT !.table_name = tn, !.cfg = cfg, !.data = d,
                              !.bulk = bulk] IN
      /\ Start("create_records", a)
      /\ IF tn = <<>> \/ d = "none" THEN RejectArgs ELSE BeginResolve(a, FALSE)

update_records ==
    \E tn \in TableNames, cfg \in Cfgs, d \in {"none", "empty", "object"},
       bulk \in BOOLEAN, rid \in RowIds, ids \in BulkIds :
      LET a == [NoArgs EXCEPT !.table_name = tn, !.cfg = cfg, !.data = d,
                              !.bulk = bulk, !.row_id = rid, !.bulk_ids = ids] IN
      /\ Start("update_records", a)
      /\ IF \/ tn = <<>>
            \/ d \in {"none", "empty"}
            \/ bulk /\ ids = <<>>
            \/ ~bulk /\ rid = <<>>
         THEN RejectArgs ELSE BeginResolve(a, FALSE)

delete_records ==
    \E tn \in TableNames, cfg \in Cfgs, bulk \in BOOLEAN, rid \in RowIds,
       ids \in BulkIds :
      LET a == [NoArgs EXCEPT !.table_name = tn, !.cfg = cfg, !.bulk = bulk,
                              !.row_id = rid, !.bulk_ids = ids] IN
      /\ Start("delete_records", a)
      /\ IF \/ tn = <<>>
            \/ bulk /\ ids = <<>>
            \/ ~bulk /\ rid = <<>>
         THEN RejectArgs ELSE BeginResolve(a, FALSE)

get_schema ==
    \E tn \in TableNames, cfg \in Cfgs :
      LET a == [NoArgs EXCEPT !.table_name = tn, !.cfg = cfg] IN
      /\ Start("get_schema", a)
      /\ IF tn = <<>> THEN RejectArgs ELSE BeginResolve(a, FALSE)

find_contact_by_name ==
    \E tn \in TableNames, cfg \in Cfgs, nm \in ContactNames :
      LET a == [NoArgs EXCEPT !.table_name = tn, !.cfg = cfg, !.name = nm] IN
      /\ Start("find_contact_by_name", a)
      /\ IF tn = <<>> \/ nm = <<>> THEN RejectArgs ELSE BeginResolve(a, FALSE)

find_by_field ==
    \E tn \in TableNames, cfg \in Cfgs, fld \in FieldNames, q \in FieldQueries :
      LET a == [NoArgs EXCEPT !.table_name = tn, !.cfg = cfg, !.field = fld,
                              !.op = PyStr(q[1]), !.value = q[2]] IN
      /\ Start("find_by_field", a)
      /\ IF tn = <<>> \/ fld = <<>> \/ q[1] \notin FieldAllowedOps
         THEN RejectArgs ELSE BeginResolve(a, TRUE)

find_by_fields ==
    \E tn \in TableNames, cfg \in Cfgs, isList \in BOOLEAN,
       cs \in SeqsUpTo(ToolConds, MaxConds), lg \in ToolLogics :
      LET a == [NoArgs EXCEPT !.table_name = tn, !.cfg = cfg,
                              !.conds_is_list = isList,
                              !.conditions = IF isList THEN cs ELSE <<>>,
                              !.logic = lg] IN
      /\ Start("find_by_fields", a)
      /\ IF tn = <<>> \/ ~isList \/ cs = <<>>
         THEN RejectArgs ELSE BeginResolve(a, TRUE)

\* the where parameter the handler builds once the table is resolved
WhereFor(t, a) ==
    CASE t = "find_contact_by_name" ->
            Ok(<<"(">> \o s_Contact_Name \o <<",">> \o s_eq \o <<",", "'">>
               \o a.name \o <<"'", ")">>)
      [] t = "find_by_field" ->
            Ok(<<"(">> \o a.field \o <<",">> \o a.op.s \o <<",">>
               \o FieldFmt(a.value, a.op.s) \o <<")">>)
      [] t = "find_by_fields" -> BuildWhere(a.conditions, a.logic)
      [] OTHER -> Ok(<<>>)

\* the json body of the request
PayloadFor(t, a) ==
    CASE t = "create_records" -> IF a.bulk THEN "list" ELSE "object"
      [] t = "update_records" -> IF a.bulk THEN "ids+data" ELSE "object"
      [] t = "delete_records" -> IF a.bulk THEN "ids" ELSE "none"
      [] OTHER -> "none"

\* the handler returns through its finally: the client is closed
Finish(res, fail, outcome) ==
    /\ Returns(res, fail)
    /\ client' = "closed"
    /\ open_clients' = open_clients - 1
    /\ calls' = [calls EXCEPT ![Len(calls)].outcome = outcome]
    /\ UNCHANGED remote_log

\* the rest of get_table_id, and of the handler up to its own request
TablesResponse(resp) ==
    IF resp.kind \in {"network", "timeout"} THEN
        Finish(Envelope(0), resp.kind, resp.kind) /\ UNCHANGED <<table_id, where>>
    ELSE IF resp.kind = "status" THEN
        Finish(Envelope(resp.code), "http_status", "status")
        /\ UNCHANGED <<table_id, where>>
    ELSE IF resp.body = "invalid" THEN
        Finish(Envelope(0), "bad_json", "ok") /\ UNCHANGED <<table_id, where>>
    ELSE LET r == GetTableId(resp.tables, args.table_name) IN
        IF ~r.ok THEN
            Finish(Envelope(0), "not_found", "ok") /\ UNCHANGED <<table_id, where>>
        ELSE LET w == WhereFor(tool, args) IN
            IF ~w.ok THEN
                /\ Finish(Envelope(0), "validation", "ok")
                /\ table_id' = r.id
                /\ UNCHANGED where
            ELSE
                /\ pc' = "request"
                /\ table_id' = r.id
                /\ where' = w.val
                /\ calls' = Append([calls EXCEPT ![Len(calls)].outcome = "ok"],
                                   Call("request", PayloadFor(tool, args)))
                /\ remote_log' = remote_log + 1
                /\ UNCHANGED <<client, open_clients, failure, result>>

get_table_id_response ==
    /\ pc = "get_table_id"
    /\ \E resp \in TableResponses : TablesResponse(resp)
    /\ UNCHANGED <<tool, args, invocations>>

\* what delete_records makes of a 2xx response
DeleteResult(resp) ==
    IF resp.code = 204 THEN [Success EXCEPT !.val = <<"deleted">>]
    ELSE CASE resp.body = "invalid" -> [Success EXCEPT !.val = <<"deleted", "non-JSON">>]
           [] resp.body = "number" -> [Success EXCEPT !.val = <<"deleted", "count">>]
           [] resp.body = "list" -> [Success EXCEPT !.val = <<"deleted", "response_data">>]
           [] resp.body = "dict" -> Success

\* the handler after the response to its own request
RecordsResponse(resp) ==
    /\ IF resp.kind \in {"network", "timeout"} THEN
            Finish(Envelope(0), resp.kind, resp.kind)
       ELSE IF resp.kind = "status" THEN
            Finish(Envelope(resp.code), "http_status", "status")
       ELSE IF tool = "delete_records" THEN
            Finish(DeleteResult(resp), "none", "ok")
       ELSE IF resp.body = "invalid" THEN
            Finish(Envelope(0), "bad_json", "ok")
       ELSE Finish(Success, "none", "ok")
    /\ UNCHANGED <<table_id, where>>

\* a handler that sends the request once more after a network failure
request_response_Retry ==
    /\ pc = "request"
    /\ \E resp \in RecordResponses :
          IF resp.kind = "network" /\ Len(calls) < 3 THEN
              /\ calls' = Append([calls EXCEPT ![Len(calls)].outcome = "network"],
                                 Call("request", PayloadFor(tool, args)))
              /\ remote_log' = remote_log + 1
              /\ UNCHANGED <<pc, client, open_clients, failure, result, table_id, where>>
          ELSE RecordsResponse(resp)
    /\ UNCHANGED <<tool, args, invocations>>

request_response ==
    /\ pc = "request"
    /\ \E resp \in RecordResponses : RecordsResponse(resp)
    /\ UNCHANGED <<tool, args, invocations>>

\* list_tables after its response: no except clause, the finally closes
list_tables_response ==
    /\ pc = "list_tables"
    /\ \E resp \in TableResponses :
          IF resp.kind \in {"network", "timeout"} THEN
              Finish(Uncaught, resp.kind, resp.kind)
          ELSE IF resp.kind = "status" THEN
              Finish(Uncaught, "http_status", "status")
          ELSE IF resp.body = "invalid" THEN
              Finish(Uncaught, "bad_json", "ok")
          ELSE Finish([Success EXCEPT !.val = <<"tables", "pageInfo">>], "none", "ok")
    /\ UNCHANGED <<tool, args, invocations, table_id, where>>

\* the handler's frame is gone; the host may call the next tool
return_to_host ==
    /\ pc = "done"
    /\ pc' = "idle" /\ tool' = "none" /\ args' = NoArgs
    /\ client' = "none" /\ calls' = <<>> /\ table_id' = <<>>
    /\ failure' = "none" /\ result' = NoResult /\ where' = <<>>
    /\ UNCHANGED <<open_clients, remote_log, invocations>>

Next ==
    \/ list_tables
    \/ retrieve_records
    \/ create_records
    \/ update_records
    \/ delete_records
    \/ get_schema
    \/ find_contact_by_name
    \/ find_by_field
    \/ find_by_fields
    \/ get_table_id_response
    \/ request_response
    \/ list_tables_response
    \/ return_to_host

Spec == Init /\ [][Next]_vars

-----------------------------------------------------------------------------
(* Claims about the filter builder, under SpecWhere *)

BuildApplied == tool = "_build_where" /\ pc = "applied"
MakeApplied == tool = "_make_condition" /\ pc = "applied"

\* what the loop of _build_where hands to _make_condition for condition c
CondField(c) == DictGet(c.field)
CondOp(c) == DictGetDefault(c.op, PyStr(s_eq))
CondValue(c) == DictGet(c.value)
CondExpr(c) == MakeCondition(PyStrOf(CondField(c)), CondOp(c), CondValue(c))
HasExpr(c) == Truthy(CondField(c)) /\ CondExpr(c).ok

\* c1,c2,...,cn in input order
RECURSIVE CommaList(_, _)
CommaList(cs, n) ==
    IF n = 1 THEN CondExpr(cs[1]).val
    ELSE CommaList(cs, n - 1) \o <<",">> \o CondExpr(cs[n]).val

LogicOk(logic) == StrLower(logic) \in {<<"a","n","d">>, <<"o","r">>}

\* C6: for a condition list every member of which has a per-condition
\* expression, and logic and/or in any letter case, _build_where returns the
\* single expression unwrapped when the list has one condition, and
\* logic(c1,...,cn), logic lower-cased and the expressions in input order,
\* when it has two or more.
C6_Combination ==
    (BuildApplied /\ args.conditions # <<>> /\ LogicOk(args.logic)
       /\ \A i \in 1..Len(args.conditions) : HasExpr(args.conditions[i]))
    => LET cs == args.conditions
           n == Len(cs)
       IN  /\ result.ok
           /\ n = 1 => result.val = CondExpr(cs[1]).val
           /\ n >= 2 => result.val = StrLower(args.logic) \o <<"(">>
                                        \o CommaList(cs, n) \o <<")">>

C6_Witness ==
    /\ BuildApplied /\ result.ok
    /\ Len(args.conditions) = 2
    /\ args.logic = <<"O","R">>
    /\ args.conditions[1] # args.conditions[2]
    /\ StartsWith(result.val, <<"o","r","(">>)

C6_WitnessSingle ==
    BuildApplied /\ result.ok /\ Len(args.conditions) = 1 /\ result.val[1] = "("

\* the operators the builder supports
ClaimOps ==
    { <<"e","q">>, <<"n","e","q">>, <<"g","t">>, <<"g","t","e">>, <<"l","t">>,
      <<"l","t","e">>, <<"l","i","k","e">>, <<"i","n">>, <<"n","i","n">>,
      <<"b","e","t","w","e","e","n">> }

IsPair(v) == v.t = "list" /\ Len(v.items) = 2

InvalidCond(c) ==
    \/ ~Truthy(CondField(c))
    \/ CondOp(c).t # "str"
    \/ StrLower(CondOp(c).s) \notin ClaimOps
    \/ StrLower(CondOp(c).s) = <<"b","e","t","w","e","e","n">> /\ ~IsPair(CondValue(c))

\* C7: _build_where raises a validation error, and returns no expression,
\* whenever the condition list is empty, logic (lower-cased) is neither and
\* nor or, or any condition of the list has no non-empty field, an operator
\* that is (lower-cased) not a supported one, or is a between whose value is
\* not a list of exactly two elements.
C7_Rejects ==
    (BuildApplied
       /\ \/ args.conditions = <<>>
          \/ ~LogicOk(args.logic)
          \/ \E i \in 1..Len(args.conditions) : InvalidCond(args.conditions[i]))
    => (~result.ok /\ result.err = "ValueError" /\ result.val = <<>>)

\* a valid condition followed by one with an unsupported operator
C7_Witness ==
    /\ BuildApplied /\ ~result.ok
    /\ LogicOk(args.logic)
    /\ Len(args.conditions) = 2
    /\ ~InvalidCond(args.conditions[1])
    /\ CondOp(args.conditions[2]).s = <<"f","o","o">>

\* a bound as the claim has it: numeric bounds keep their value and stay
\* unquoted, the others are quoted with quotes doubled
BoundOk(bound, emitted) ==
    LET x == PyStrOf(bound)
    IN  IF ParseFloat(x).ok
        THEN ParseFloat(emitted).ok /\ ParseFloat(emitted) = ParseFloat(x)
        ELSE emitted = <<"'">> \o StrReplace(x, "'", <<"'", "'">>) \o <<"'">>

BetweenShape(val, field, bounds) ==
    LET pre == <<"a","n","d","(","(">> \o field \o <<",","g","t","e",",">>
        mid == <<")",",","(">> \o field \o <<",","l","t","e",",">>
        suf == <<")",")">>
    IN  \E la \in 0..(Len(val) - Len(pre) - Len(mid) - Len(suf)) :
          LET a == SubSeq(val, Len(pre) + 1, Len(pre) + la)
              b == SubSeq(val, Len(pre) + la + Len(mid) + 1, Len(val) - Len(suf))
          IN  /\ val = pre \o a \o mid \o b \o suf
              /\ BoundOk(bounds[1], a)
              /\ BoundOk(bounds[2], b)

\* C8: for a between condition on field F with a two-element value [A, B],
\* _make_condition returns and((F,gte,a),(F,lte,b)), a numeric bound emitted
\* unquoted as a numeral of the same value, any other bound quoted with its
\* single quotes doubled.
C8_Between ==
    (MakeApplied /\ args.op.t = "str" /\ StrLower(args.op.s) = <<"b","e","t","w","e","e","n">>
       /\ IsPair(args.value))
    => (result.ok /\ BetweenShape(result.val, args.field, args.value.items))

\* the same, for the bounds of the documented example: 10 and 20
C8_SmallBounds ==
    (MakeApplied /\ args.op.t = "str" /\ StrLower(args.op.s) = <<"b","e","t","w","e","e","n">>
       /\ args.value = PyList(<<PyInt(10, 0), PyInt(20, 0)>>))
    => (result.ok /\ BetweenShape(result.val, args.field, args.value.items))

-----------------------------------------------------------------------------
(* Claims about the resolver, under SpecResolve *)

ResolveApplied == tool = "get_table_id" /\ pc = "applied"

AltName(t) == IF t.table_name # <<>> THEN t.table_name ELSE t.name

IdEquals(t) == t.id = args.table_name
ExactName(t) ==
    \/ StrStrip(t.title) = StrStrip(args.table_name)
    \/ StrStrip(AltName(t)) = StrStrip(args.table_name)
NormalizedName(t) ==
    \/ Normalize(StrStrip(t.title)) = Normalize(StrStrip(args.table_name))
    \/ Normalize(StrStrip(AltName(t))) = Normalize(StrStrip(args.table_name))

TableIndices == 1..Len(args.tables)
IdMatches == {args.tables[i].id : i \in {j \in TableIndices : IdEquals(args.tables[j])}}
ExactMatches == {args.tables[i].id : i \in {j \in TableIndices : ExactName(args.tables[j])}}
NormalizedMatches ==
    {args.tables[i].id : i \in {j \in TableIndices : NormalizedName(args.tables[j])}}

\* C3: get_table_id resolves in strict priority over the whole table
\* sequence: a table whose id equals the query wins; otherwise a table whose
\* trimmed title or altName equals the trimmed query wins; only when no
\* table matches exactly is a normalized match used.
C3_StrictPriority ==
    ResolveApplied =>
        IF IdMatches # {}
        THEN result.ok /\ result.id \in IdMatches
        ELSE IF ExactMatches # {}
        THEN result.ok /\ result.id \in ExactMatches
        ELSE NormalizedMatches # {}
             => result.ok /\ result.id \in NormalizedMatches

\* a table matches the query by id, by exact name or by normalized name
AnyMatch == IdMatches \cup ExactMatches \cup NormalizedMatches

\* entry i of the error's listing carries table i's id, title and altName
Enumerates(available, i) ==
    /\ available[i].id = args.tables[i].id
    /\ available[i].title = args.tables[i].title
    /\ available[i].name = AltName(args.tables[i])

\* C11: get_table_id fails with the not-found error exactly when no table
\* of the fetched list matches the query by id, by exact title or altName,
\* or by normalized title or altName; the error lists the id, title and
\* altName of every table of the list, none omitted; and on success the
\* returned id is the id of a table of the list.
C11_NotFound ==
    ResolveApplied =>
        /\ ~result.ok <=> AnyMatch = {}
        /\ ~result.ok =>
              /\ Len(result.available) = Len(args.tables)
              /\ \A i \in TableIndices : Enumerates(result.available, i)
        /\ result.ok => \E i \in TableIndices : result.id = args.tables[i].id

\* a failed resolution over two tables, one of them untitled
C11_Witness ==
    /\ ResolveApplied
    /\ ~result.ok
    /\ Len(args.tables) >= 2
    /\ \E i \in TableIndices : args.tables[i].title = <<>>
    /\ \E i \in TableIndices : args.tables[i].title # <<>>

-----------------------------------------------------------------------------
(* Claims about the tool handlers, under Spec *)

\* the record query, with its where parameter, has been sent
Sent == Len(calls) = 2

\* the invocation was turned down by the handler's argument checks
Rejected == pc = "done" /\ failure = "validation" /\ calls = <<>> /\ client = "none"

\* C1: whatever the tool and whatever the failure (validation or missing
\* configuration, table not found, non-2xx response, network failure,
\* timeout, malformed JSON), the invocation returns the error envelope; no
\* failure leaves the handler as an uncaught exception.
C1_UniformEnvelope ==
    (pc = "done" /\ failure # "none") => result.kind = "envelope"

\* C2: a client created by get_nocodb_client is closed before the
\* invocation ends, on every exit path.
C2_ClientClosed ==
    pc = "done" => client # "open"

ClaimQuote(s) == <<"'">> \o StrReplace(s, "'", <<"'", "'">>) \o <<"'">>

Triple(field, op, value) ==
    <<"(">> \o field \o <<",">> \o op \o <<",">> \o value \o <<")">>

SingleCond == Len(args.conditions) = 1

\* C4: in every filter sent by the field-search tools a string value is
\* single-quoted with each embedded single quote doubled.
C4_QuotesDoubled ==
    /\ (tool = "find_contact_by_name" /\ Sent)
         => where = Triple(<<"C","o","n","t","a","c","t","_","N","a","m","e">>,
                           <<"e","q">>, ClaimQuote(args.name))
    /\ (tool = "find_by_field" /\ Sent /\ args.value.t = "str"
          /\ args.op.s \notin {<<"i","n">>, <<"n","i","n">>})
         => where = Triple(args.field, args.op.s, ClaimQuote(args.value.s))
    /\ (tool = "find_by_fields" /\ Sent /\ SingleCond
          /\ CondValue(args.conditions[1]).t = "str"
          /\ StrLower(CondOp(args.conditions[1]).s) = <<"e","q">>)
         => where = Triple(CondField(args.conditions[1]).s, <<"e","q">>,
                           ClaimQuote(CondValue(args.conditions[1]).s))

\* C5: an invocation issues at most two remote calls, in sequence: at most
\* one table listing, then at most one call for the operation, and only
\* once the table is resolved.  No call follows a failed call or a failed
\* resolution, and the failure is what the invocation reports.
C5_AtMostTwoCalls ==
    /\ Len(calls) <= 2
    /\ remote_log <= 2 * invocations
    /\ Len(calls) >= 1 => calls[1].kind = "tables"
    /\ Len(calls) = 2 =>
          /\ calls[2].kind = "request"
          /\ calls[1].outcome = "ok"
          /\ table_id # <<>>
          /\ tool # "list_tables"
    /\ \A i \in 1..Len(calls) :
          calls[i].outcome \in {"status", "network", "timeout"} =>
              /\ i = Len(calls)
              /\ pc = "done"
              /\ result.kind \in {"envelope", "exception"}
    /\ failure = "not_found" =>
          (Len(calls) = 1 /\ pc = "done" /\ result.kind = "envelope")

\* the operation's call failed on the network, and nothing followed it
C5_Witness ==
    /\ pc = "done"
    /\ Len(calls) = 2
    /\ calls[2].outcome = "network"
    /\ result.kind = "envelope"
    /\ invocations = 1 /\ remote_log = 2

ClaimItem(v) == IF v.t = "int" THEN PyStrOf(v) ELSE ClaimQuote(v.s)

IsInOp(op) == StrLower(op) \in {<<"i","n">>, <<"n","i","n">>}

\* C9: for in and nin, in find_by_field and in find_by_fields, a scalar
\* value is emitted as a one-element parenthesized list: 'A' yields ('A')
\* and 5 yields (5).
C9_ScalarIn ==
    /\ (tool = "find_by_field" /\ Sent /\ IsInOp(args.op.s)
          /\ args.value.t \in {"str", "int"})
         => where = Triple(args.field, args.op.s,
                           <<"(">> \o ClaimItem(args.value) \o <<")">>)
    /\ (tool = "find_by_fields" /\ Sent /\ SingleCond
          /\ IsInOp(CondOp(args.conditions[1]).s)
          /\ CondValue(args.conditions[1]).t \in {"str", "int"})
         => where = Triple(CondField(args.conditions[1]).s,
                           StrLower(CondOp(args.conditions[1]).s),
                           <<"(">> \o ClaimItem(CondValue(args.conditions[1])) \o <<")">>)

\* the operators find_by_field documents
ClaimFieldOps == ClaimOps \ {<<"b","e","t","w","e","e","n">>}

\* C10: in find_by_field and find_by_fields an operator that is supported
\* once lower-cased is accepted and emitted in lower case; one that is not
\* is rejected and never sent.
C10_OperatorCase ==
    /\ (tool = "find_by_field" /\ args.table_name # <<>> /\ args.field # <<>>
          /\ StrLower(args.op.s) \in ClaimFieldOps)
         => ~Rejected
    /\ (tool = "find_by_field" /\ Sent)
         => StartsWith(where, <<"(">> \o args.field \o <<",">>
                                 \o StrLower(args.op.s) \o <<",">>)
    /\ (tool = "find_by_field" /\ StrLower(args.op.s) \notin ClaimFieldOps)
         => ~Sent
    /\ (tool = "find_by_fields" /\ Sent /\ SingleCond
          /\ StrLower(CondOp(args.conditions[1]).s) # <<"b","e","t","w","e","e","n">>)
         => StartsWith(where, <<"(">> \o CondField(args.conditions[1]).s \o <<",">>
                                 \o StrLower(CondOp(args.conditions[1]).s) \o <<",">>)
    /\ (tool = "find_by_fields"
          /\ \E i \in 1..Len(args.conditions) :
                StrLower(CondOp(args.conditions[i]).s) \notin ClaimOps)
         => ~Sent

\* the arguments of tool t have a defect its argument checks look for
ArgDefect(t, a) ==
    \/ t # "list_tables" /\ a.table_name = <<>>
    \/ t = "create_records" /\ a.data = "none"
    \/ t = "update_records" /\ a.data \in {"none", "empty"}
    \/ t \in {"update_records", "delete_records"} /\ a.bulk /\ a.bulk_ids = <<>>
    \/ t \in {"update_records", "delete_records"} /\ ~a.bulk /\ a.row_id = <<>>
    \/ t = "find_contact_by_name" /\ a.name = <<>>
    \/ t = "find_by_field" /\ a.field = <<>>
    \/ t = "find_by_field" /\ a.op.s \notin ClaimFieldOps
    \/ t = "find_by_fields" /\ (~a.conds_is_list \/ a.conditions = <<>>)

\* C12: a call that a tool turns down in its argument checks (empty table
\* name; null data in create_records; empty data, or no row id or bulk-id
\* list for the chosen mode, in update_records and delete_records; empty
\* name in find_contact_by_name; empty field or unsupported operator in
\* find_by_field; empty or non-list conditions in find_by_fields) returns
\* the error envelope with no client created and no remote call issued: the
\* open clients and the log of remote calls are as they were before the call.
C12_RejectionFrame ==
    [][ (pc = "idle" /\ pc' # "idle" /\ ArgDefect(tool', args')) =>
            /\ pc' = "done"
            /\ result'.kind = "envelope"
            /\ client' = "none"
            /\ calls' = <<>>
            /\ open_clients' = open_clients
            /\ remote_log' = remote_log ]_vars

\* update_records turned down for its data or ids, after an earlier
\* invocation that issued remote calls
C12_Witness ==
    /\ pc = "done"
    /\ tool = "update_records"
    /\ args.table_name # <<>>
    /\ ArgDefect(tool, args)
    /\ result.kind = "envelope"
    /\ client = "none"
    /\ remote_log >= 1

====
